---- MODULE Spec2Model ----
(***************************************************************************)
(* TestCafeConfiguration (src/src/configuration/testcafe-configuration.ts) *)
(* as a state machine: the option set, the override record, the warnings  *)
(* emitted, and the in-flight browser resolution of an init or an         *)
(* asyncMergeOptions call.                                                 *)
(*                                                                         *)
(* The base class Configuration, the default catalog, the browser         *)
(* provider pool and the string helpers are not part of the source file;  *)
(* their operators below follow the specification's contracts (sections   *)
(* 3, 4.3, 4.4, 6) and are marked as such where they are defined.         *)
(***************************************************************************)
EXTENDS Integers, Sequences, FiniteSets, TLC

VARIABLES
    configFile,         \* constructor argument: '' or an explicit path
    fs,                 \* the configuration file on disk: [exists, content]
    options,            \* this._options: name -> [value, source]
    overriddenOptions,  \* this._overriddenOptions
    messages,           \* warnings shown by Configuration._showConsoleWarning
    pc,                 \* "constructed", "idle", "resolving", "rejected"
    requests,           \* the `browsers` array of _getBrowserInfo
    responses,          \* per request: pending, fulfilled, rejected
    error,              \* what the last init or asyncMergeOptions call threw
    lastOp,             \* history: the last call of init or asyncMergeOptions
    lastBag,            \* history: the runtime options of that call
    before,             \* history: options and override record when it was called
    unresolved,         \* history: the browsers value when resolution began
    settled,            \* history: the requests, in the order they completed
    inputValues,        \* history: name -> the last value a merge set
    pendingOverrides,   \* history: names whose Configuration-sourced defined value
                        \*          a merge has set since the last report
    prepared,           \* history: prepare has run
    fresh,              \* history: prepare has run since the last merge call
    merges              \* history: number of asyncMergeOptions calls

vars == <<configFile, fs, options, overriddenOptions, messages, pc, requests,
          responses, error, lastOp, lastBag, before, unresolved, settled,
          inputValues,
          pendingOverrides, prepared, fresh, merges>>

-----------------------------------------------------------------------------
(* JavaScript values, tagged with their type. *)

Undefined == [t |-> "undefined"]
Null      == [t |-> "null"]
Bool(b)   == [t |-> "boolean", b |-> b]
Num(n)    == [t |-> "number", n |-> n]
Str(s)    == [t |-> "string", s |-> s]
Arr(a)    == [t |-> "array", a |-> a]
Obj(o)    == [t |-> "object", o |-> o]
Fn(f)     == [t |-> "function", f |-> f]
BrowserInfo(alias) == [t |-> "browserInfo", alias |-> alias]

EmptyObject == << >>

\* ToBoolean: what `!value` and `!!value` test.
Truthy(v) ==
    CASE v.t = "undefined" -> FALSE
      [] v.t = "null"      -> FALSE
      [] v.t = "boolean"   -> v.b
      [] v.t = "number"    -> v.n # 0
      [] v.t = "string"    -> v.s # ""
      [] OTHER             -> TRUE

\* lodash castArray
castArray(v) == IF v.t = "array" THEN v ELSE Arr(<<v>>)

\* lodash flatten: one level
RECURSIVE flatten(_)
flatten(a) ==
    IF a = << >> THEN << >>
    ELSE (IF Head(a).t = "array" THEN Head(a).a ELSE <<Head(a)>>) \o flatten(Tail(a))

\* Object.assign(target, source): own properties of source win; a source that
\* is undefined or null is skipped.
ObjectAssign(target, source) ==
    IF source.t \in {"undefined", "null"} THEN target ELSE Obj(source.o @@ target.o)

-----------------------------------------------------------------------------
(* Names and constants of the source file. *)

SourceConfiguration == "configuration"
SourceInput         == "input"

BASE_CONFIGURATION_FILENAME == ".testcaferc"
DEFAULT_SCREENSHOTS_DIRECTORY == "screenshots"

OPTION_FLAG_NAMES ==
    <<"skipJsErrors", "debugMode", "debugOnFail", "skipUncaughtErrors",
      "stopOnFirstFail", "takeScreenshotsOnFails", "disablePageCaching",
      "disablePageReloads", "disableScreenshots", "disableMultipleWindows">>

OPTION_INIT_FLAG_NAMES ==
    <<"developmentMode", "retryTestPages", "cache", "disableHttp2", "proxyless">>

-----------------------------------------------------------------------------
(* The default catalog (./default-values). *)

DEFAULT_TIMEOUT_SELECTOR      == Num(10000)
DEFAULT_TIMEOUT_ASSERTION     == Num(3000)
DEFAULT_TIMEOUT_PAGE_LOAD     == Num(3000)
DEFAULT_SPEED_VALUE           == Num(1)
DEFAULT_APP_INIT_DELAY        == Num(1000)
DEFAULT_CONCURRENCY_VALUE     == Num(1)
DEFAULT_SOURCE_DIRECTORIES    == Arr(<<Str("tests"), Str("test")>>)
DEFAULT_DEVELOPMENT_MODE      == Bool(FALSE)
DEFAULT_RETRY_TEST_PAGES      == Bool(FALSE)
DEFAULT_DISABLE_HTTP2         == Bool(FALSE)
DEFAULT_PROXYLESS             == Bool(FALSE)
DEFAULT_SCREENSHOT_THUMBNAILS == Bool(TRUE)

\* The catalog's compiler options: no compiler is customised.
getDefaultCompilerOptions == Obj(EmptyObject)

-----------------------------------------------------------------------------
(* Collaborators, by their contracts (specification section 6). *)

\* resolvePathRelativelyCwd: the path under the working directory.
resolvePathRelativelyCwd(path) ==
    IF path = "screenshots" THEN Str("/cwd/screenshots") ELSE Str("/cwd/.")

\* getGrepOptions: the pattern compiled from a grep string.
getGrepOptions(optionName, value) == [t |-> "regexp", source |-> value, opt |-> optionName]

\* getFilterFn: the predicate compiled from a structured filter.
getFilterFn(filter) == Fn(filter)

\* getSSLOptions: the canonical options object of a raw ssl value.
getSSLOptions(value) == IF value.t = "string" THEN Obj("parsed" :> value) ELSE value

\* prepareReporters: one resolved reporter per spec.
prepareReporters(specs) ==
    Arr([i \in 1..Len(specs.a) |-> [t |-> "reporter", spec |-> specs.a[i]]])

\* getConcatenatedValuesString: the names, joined in order.
getConcatenatedValuesString(names) == names

\* getPluralSuffix
getPluralSuffix(names) == IF Len(names) > 1 THEN "s" ELSE ""

\* renderTemplate(WARNING_MESSAGES.configOptionsWereOverridden, ...)
renderTemplate(template, optionsStr, optionsSuffix) ==
    [template |-> template, optionsStr |-> optionsStr, optionsSuffix |-> optionsSuffix]

NoError == [type |-> "none", data |-> Undefined]
GeneralError(type, data) == [type |-> type, data |-> data]

\* What one browser specifier expands to.
BrowserExpansion(alias) ==
    CASE alias = "chrome"  -> Arr(<<BrowserInfo("chrome:1"), BrowserInfo("chrome:2")>>)
      [] alias = "firefox" -> BrowserInfo("firefox:1")
      [] OTHER             -> Arr(<<BrowserInfo(alias)>>)

KnownBrowsers == {"chrome", "firefox"}

\* browserProviderPool.getBrowserInfo: a descriptor or a connection resolves
\* to itself, a known specifier to its expansion, anything else is rejected
\* with the resolver's own error.
getBrowserInfo(browser) ==
    IF browser.t = "browserInfo"
    THEN [state |-> "fulfilled", value |-> browser, error |-> NoError]
    ELSE IF browser.t = "string" /\ browser.s \in KnownBrowsers
    THEN [state |-> "fulfilled", value |-> BrowserExpansion(browser.s), error |-> NoError]
    ELSE [state |-> "rejected", value |-> Undefined,
          error |-> GeneralError("cannotFindBrowser", browser)]

Pending == [state |-> "pending", value |-> Undefined, error |-> NoError]

-----------------------------------------------------------------------------
(* The option store of the base class Configuration (specification         *)
(* sections 3, 4.3 and 6).                                                 *)

Option(value, source) == [value |-> value, source |-> source]

\* _fromObj: every key of the file, with source Configuration
_fromObj(obj) == [k \in DOMAIN obj |-> Option(obj[k], SourceConfiguration)]

\* getOption: the value, undefined for a name never set
getOption(opts, name) == IF name \in DOMAIN opts THEN opts[name].value ELSE Undefined

\* _ensureOption: creates the entry when the name is absent
_ensureOption(opts, name, value, source) ==
    IF name \in DOMAIN opts THEN opts ELSE opts @@ (name :> Option(value, source))

\* _ensureOptionWithValue: fills a still-unset option with its default
_ensureOptionWithValue(opts, name, defaultValue, source) ==
    LET ensured == _ensureOption(opts, name, defaultValue, source)
    IN  IF ensured[name].value # Undefined THEN ensured
        ELSE [ensured EXCEPT ![name] = Option(defaultValue, source)]

\* _ensureArrayOption: wraps a present non-array value; an absent one stays unset
_ensureArrayOption(opts, name) ==
    IF name \notin DOMAIN opts THEN opts
    ELSE [opts EXCEPT ![name].value = castArray(@)]

\* The order in which the entries of an option bag are visited.
OptionOrder ==
    <<"speed", "developmentMode", "src", "debugMode", "filter", "browsers",
      "screenshots", "compilerOptions", "tsConfigPath">>

\* One entry of a runtime merge: a key whose prior value is defined and came
\* from a lower-precedence source is recorded, then the value is set with
\* source Input.
_setOptionValue(store, name, value) ==
    LET opts     == store.options
        recorded == /\ name \in DOMAIN opts
                    /\ opts[name].source = SourceConfiguration
                    /\ opts[name].value # Undefined
    IN  [options    |-> [k \in DOMAIN opts \cup {name} |->
                            IF k = name THEN Option(value, SourceInput) ELSE opts[k]],
         overridden |-> IF recorded THEN Append(store.overridden, name)
                                    ELSE store.overridden]

RECURSIVE mergeEntries(_, _, _)
mergeEntries(store, bag, names) ==
    IF names = << >> THEN store
    ELSE LET name == Head(names)
         IN  mergeEntries(IF name \in DOMAIN bag
                            THEN _setOptionValue(store, name, bag[name])
                            ELSE store,
                          bag, Tail(names))

\* mergeOptions: every key present in the bag is set; an empty bag sets nothing
mergeOptions(opts, overridden, bag) ==
    mergeEntries([options |-> opts, overridden |-> overridden], bag, OptionOrder)

-----------------------------------------------------------------------------
(* The private methods of TestCafeConfiguration, as functions of the       *)
(* option set.                                                             *)

\* _prepareFlag: the entry is ensured (undefined, Configuration) and its value
\* coerced with !!
_prepareFlag(opts, name) ==
    LET ensured == _ensureOption(opts, name, Undefined, SourceConfiguration)
    IN  [ensured EXCEPT ![name].value = Bool(Truthy(@))]

RECURSIVE prepareFlagList(_, _)
prepareFlagList(opts, names) ==
    IF names = << >> THEN opts
    ELSE prepareFlagList(_prepareFlag(opts, Head(names)), Tail(names))

_prepareFlags(opts) == prepareFlagList(opts, OPTION_FLAG_NAMES)

_prepareInitFlags(opts) == prepareFlagList(opts, OPTION_INIT_FLAG_NAMES)

\* The grep strings of a structured filter become patterns.
GrepField(filter, field, optionName) ==
    IF field \in DOMAIN filter /\ Truthy(filter[field])
    THEN [filter EXCEPT ![field] = getGrepOptions(optionName, @)]
    ELSE filter

_prepareFilterFn(opts) ==
    LET ensured == _ensureOption(opts, "filter", Null, SourceConfiguration)
        value   == ensured["filter"].value
    IN  IF ~Truthy(value) THEN ensured
        ELSE LET withTestGrep    == GrepField(value.o, "testGrep", "filter.testGrep")
                 withFixtureGrep == GrepField(withTestGrep, "fixtureGrep", "filter.fixtureGrep")
             IN  [ensured EXCEPT !["filter"].value = getFilterFn(Obj(withFixtureGrep))]

_prepareReporters(opts) ==
    IF "reporter" \notin DOMAIN opts THEN opts
    ELSE [opts EXCEPT !["reporter"].value = prepareReporters(castArray(@))]

_prepareSslOptions(opts) ==
    IF "ssl" \notin DOMAIN opts THEN opts
    ELSE [opts EXCEPT !["ssl"].value = getSSLOptions(@)]

_normalizeOptionsAfterLoad(opts) ==
    LET ssl       == _prepareSslOptions(opts)
        initFlags == _prepareInitFlags(ssl)
        filter    == _prepareFilterFn(initFlags)
        src       == _ensureArrayOption(filter, "src")
        browsers  == _ensureArrayOption(src, "browsers")
        scripts   == _ensureArrayOption(browsers, "clientScripts")
    IN  _prepareReporters(scripts)

\* Reading a property of a plain object: undefined when the object has none.
Prop(obj, field) == IF field \in DOMAIN obj.o THEN obj.o[field] ELSE Undefined

\* Assigning a property of a plain object.
SetProp(obj, field, value) ==
    Obj([k \in DOMAIN obj.o \cup {field} |-> IF k = field THEN value ELSE obj.o[k]])

\* _ensureScreenshotOptions replacing the whole object when it has no path
ensureScreenshotOptionsWholeObject(opts) ==
    LET path        == resolvePathRelativelyCwd(DEFAULT_SCREENSHOTS_DIRECTORY)
        ensured     == _ensureOption(opts, "screenshots", Obj(EmptyObject), SourceConfiguration)
        screenshots == ensured["screenshots"].value
        filled      == IF ~Truthy(Prop(screenshots, "path"))
                         THEN Obj([path |-> path, thumbnails |-> DEFAULT_SCREENSHOT_THUMBNAILS])
                         ELSE IF Prop(screenshots, "thumbnails") = Undefined
                         THEN SetProp(screenshots, "thumbnails", DEFAULT_SCREENSHOT_THUMBNAILS)
                         ELSE screenshots
    IN  [ensured EXCEPT !["screenshots"].value = filled]

_ensureScreenshotOptions(opts) ==
    LET path        == resolvePathRelativelyCwd(DEFAULT_SCREENSHOTS_DIRECTORY)
        ensured     == _ensureOption(opts, "screenshots", Obj(EmptyObject), SourceConfiguration)
        screenshots == ensured["screenshots"].value
        withPath    == IF ~Truthy(Prop(screenshots, "path"))
                         THEN SetProp(screenshots, "path", path)
                         ELSE screenshots
        withThumbs  == IF Prop(withPath, "thumbnails") = Undefined
                         THEN SetProp(withPath, "thumbnails", DEFAULT_SCREENSHOT_THUMBNAILS)
                         ELSE withPath
    IN  [ensured EXCEPT !["screenshots"].value = withThumbs]

\* _setDefaultValues assigning each default whether or not the option is set
setDefaultValuesUnconditionally(opts) ==
    LET defaults == [selectorTimeout  |-> DEFAULT_TIMEOUT_SELECTOR,
                     assertionTimeout |-> DEFAULT_TIMEOUT_ASSERTION,
                     pageLoadTimeout  |-> DEFAULT_TIMEOUT_PAGE_LOAD,
                     speed            |-> DEFAULT_SPEED_VALUE,
                     appInitDelay     |-> DEFAULT_APP_INIT_DELAY,
                     concurrency      |-> DEFAULT_CONCURRENCY_VALUE,
                     src              |-> DEFAULT_SOURCE_DIRECTORIES,
                     developmentMode  |-> DEFAULT_DEVELOPMENT_MODE,
                     retryTestPages   |-> DEFAULT_RETRY_TEST_PAGES,
                     disableHttp2     |-> DEFAULT_DISABLE_HTTP2,
                     proxyless        |-> DEFAULT_PROXYLESS]
    IN  _ensureScreenshotOptions(
            [k \in DOMAIN defaults |-> Option(defaults[k], SourceConfiguration)] @@ opts)

_setDefaultValues(opts) ==
    LET o1  == _ensureOptionWithValue(opts, "selectorTimeout", DEFAULT_TIMEOUT_SELECTOR, SourceConfiguration)
        o2  == _ensureOptionWithValue(o1, "assertionTimeout", DEFAULT_TIMEOUT_ASSERTION, SourceConfiguration)
        o3  == _ensureOptionWithValue(o2, "pageLoadTimeout", DEFAULT_TIMEOUT_PAGE_LOAD, SourceConfiguration)
        o4  == _ensureOptionWithValue(o3, "speed", DEFAULT_SPEED_VALUE, SourceConfiguration)
        o5  == _ensureOptionWithValue(o4, "appInitDelay", DEFAULT_APP_INIT_DELAY, SourceConfiguration)
        o6  == _ensureOptionWithValue(o5, "concurrency", DEFAULT_CONCURRENCY_VALUE, SourceConfiguration)
        o7  == _ensureOptionWithValue(o6, "src", DEFAULT_SOURCE_DIRECTORIES, SourceConfiguration)
        o8  == _ensureOptionWithValue(o7, "developmentMode", DEFAULT_DEVELOPMENT_MODE, SourceConfiguration)
        o9  == _ensureOptionWithValue(o8, "retryTestPages", DEFAULT_RETRY_TEST_PAGES, SourceConfiguration)
        o10 == _ensureOptionWithValue(o9, "disableHttp2", DEFAULT_DISABLE_HTTP2, SourceConfiguration)
        o11 == _ensureOptionWithValue(o10, "proxyless", DEFAULT_PROXYLESS, SourceConfiguration)
    IN  _ensureScreenshotOptions(o11)

\* _prepareCompilerOptions with the arguments of Object.assign exchanged
prepareCompilerOptionsPathWins(opts) ==
    LET ensured      == _ensureOption(opts, "compilerOptions", getDefaultCompilerOptions, SourceConfiguration)
        value        == IF Truthy(ensured["compilerOptions"].value)
                          THEN ensured["compilerOptions"].value
                          ELSE getDefaultCompilerOptions
        tsConfigPath == getOption(ensured, "tsConfigPath")
        existing     == Prop(value, "typescript")
    IN  IF Truthy(tsConfigPath)
        THEN [ensured EXCEPT !["compilerOptions"].value =
                 SetProp(value, "typescript",
                         ObjectAssign(IF existing.t = "object" THEN existing ELSE Obj(EmptyObject),
                                      Obj("configPath" :> tsConfigPath)))]
        ELSE [ensured EXCEPT !["compilerOptions"].value = value]

_prepareCompilerOptions(opts) ==
    LET ensured      == _ensureOption(opts, "compilerOptions", getDefaultCompilerOptions, SourceConfiguration)
        value        == IF Truthy(ensured["compilerOptions"].value)
                          THEN ensured["compilerOptions"].value
                          ELSE getDefaultCompilerOptions
        tsConfigPath == getOption(ensured, "tsConfigPath")
    IN  IF Truthy(tsConfigPath)
        THEN LET typeScriptCompilerOptions ==
                     ObjectAssign(Obj("configPath" :> tsConfigPath), Prop(value, "typescript"))
             IN  [ensured EXCEPT !["compilerOptions"].value =
                                      SetProp(value, "typescript", typeScriptCompilerOptions)]
        ELSE [ensured EXCEPT !["compilerOptions"].value = value]

\* _getBrowserInfo, up to the requests it issues: the copy of the browsers
\* value that is mapped over.
BrowsersToResolve(value) == IF value.t = "array" THEN value.a ELSE <<value>>

\* _getBrowserInfo collecting the results in the order the requests completed
resolvedInCompletionOrder(resp) ==
    Arr(flatten([i \in DOMAIN settled |-> resp[settled[i]].value]))

\* _getBrowserInfo, after Promise.all: the results in request order, flattened.
ResolvedBrowsers(resp) == Arr(flatten([i \in DOMAIN resp |-> resp[i].value]))

\* The path the base class looks at: the explicit one, or the conventional name.
filePath == IF configFile # "" THEN configFile ELSE BASE_CONFIGURATION_FILENAME

_isExplicitConfig == configFile # ""

\* _isConfigurationFileExists throwing for any missing file, explicit or not
fileExistsThrowsWhenMissing ==
    IF ~fs.exists
    THEN [error |-> GeneralError("cannotFindTestcafeConfigurationFile", Str(filePath)),
          fileExists |-> FALSE]
    ELSE [error |-> NoError, fileExists |-> fs.exists]

\* _isConfigurationFileExists: throws for an explicit file that is missing
_isConfigurationFileExists ==
    IF ~fs.exists /\ _isExplicitConfig
    THEN [error |-> GeneralError("cannotFindTestcafeConfigurationFile", Str(filePath)),
          fileExists |-> FALSE]
    ELSE [error |-> NoError, fileExists |-> fs.exists]

\* _load: null when no file is found, else the parsed content
_load ==
    LET exists == _isConfigurationFileExists
    IN  [error |-> exists.error, found |-> exists.fileExists,
         opts |-> IF exists.fileExists THEN fs.content ELSE EmptyObject]

-----------------------------------------------------------------------------
(* Inputs. *)

\* asyncMergeOptions calls after init
MaxMerges == 1

ExplicitPath == "./nope.json"

\* Contents of the configuration file.
ConfigFiles ==
    { EmptyObject,
      "speed" :> Num(0),
      [developmentMode |-> Num(1), debugMode |-> Str("yes")],
      [src |-> Str("tests/a"), speed |-> Num(3)],
      "filter" :> Obj("testGrep" :> Str("smoke")),
      "browsers" :> Str("chrome"),
      "browsers" :> Arr(<<Str("firefox"), Str("chrome")>>),
      "browsers" :> Arr(<<Str("chrome"), Str("edge")>>),
      "screenshots" :> Obj("thumbnails" :> Bool(FALSE)),
      "screenshots" :> Obj("path" :> Str("")),
      [compilerOptions |-> Obj("typescript" :> Obj("strict" :> Bool(TRUE))),
       tsConfigPath |-> Str("tsconfig.json")],
      [compilerOptions |-> Obj("typescript" :> Obj("configPath" :> Str("other.json"))),
       tsConfigPath |-> Str("tsconfig.json")] }

\* Runtime option bags; a key whose value is undefined counts as not present.
RuntimeBags ==
    { EmptyObject,
      [speed |-> Num(2), developmentMode |-> Bool(TRUE)],
      [filter |-> Fn(Str("user")), debugMode |-> Num(0), src |-> Arr(<<Str("b")>>)],
      "browsers" :> Arr(<<Str("chrome"), Str("firefox")>>),
      "browsers" :> Arr(<<Str("edge"), Str("opera")>>),
      "browsers" :> Str(""),
      [screenshots |-> Obj([path |-> Str("shots"), thumbnails |-> Null]),
       tsConfigPath |-> Str("tsconfig.build.json")],
      "compilerOptions" :> Obj("typescript" :> Obj(EmptyObject)) }

\* Contents of the file at an explicit path.
ExplicitConfigFiles == { "speed" :> Num(0) }

NoFile == [exists |-> FALSE, content |-> EmptyObject]

-----------------------------------------------------------------------------
(* The state after construction. *)

Init ==
    /\ \/ /\ configFile = ""
          /\ fs \in {NoFile} \cup {[exists |-> TRUE, content |-> c] : c \in ConfigFiles}
       \/ /\ configFile = ExplicitPath
          /\ fs \in {NoFile} \cup {[exists |-> TRUE, content |-> c] : c \in ExplicitConfigFiles}
    /\ options = EmptyObject
    /\ overriddenOptions = << >>
    /\ messages = << >>
    /\ pc = "constructed"
    /\ requests = << >>
    /\ responses = << >>
    /\ error = NoError
    /\ lastOp = "constructor"
    /\ lastBag = EmptyObject
    /\ before = [options |-> EmptyObject, overridden |-> << >>, messages |-> 0]
    /\ unresolved = Undefined
    /\ settled = << >>
    /\ inputValues = EmptyObject
    /\ pendingOverrides = {}
    /\ prepared = FALSE
    /\ fresh = FALSE
    /\ merges = 0

-----------------------------------------------------------------------------
(* The public methods. *)

Called(op, bag) ==
    /\ lastOp' = op
    /\ lastBag' = bag
    /\ before' = [options |-> options, overridden |-> overriddenOptions,
                   messages |-> Len(messages)]

\* asyncMergeOptions after super.mergeOptions: when the set has a browsers
\* entry, _getBrowserInfo up to its await.
ResolveAfterMerge(merged, opts, bag) ==
    LET hasBrowsers == "browsers" \in DOMAIN merged.options
        value       == getOption(merged.options, "browsers")
    IN  /\ overriddenOptions' = merged.overridden
        /\ inputValues' = bag @@ inputValues
        /\ pendingOverrides' = pendingOverrides \cup
                {name \in DOMAIN bag : /\ name \in DOMAIN opts
                                       /\ opts[name].source = SourceConfiguration
                                       /\ opts[name].value # Undefined}
        /\ error' = NoError
        /\ settled' = << >>
        /\ fresh' = FALSE
        /\ IF hasBrowsers /\ Truthy(value)
           THEN /\ options' = merged.options
                /\ requests' = BrowsersToResolve(value)
                /\ responses' = [i \in 1..Len(BrowsersToResolve(value)) |-> Pending]
                /\ unresolved' = value
                /\ pc' = "resolving"
           ELSE /\ options' = IF hasBrowsers
                                THEN [merged.options EXCEPT !["browsers"].value = Arr(<< >>)]
                                ELSE merged.options
                /\ requests' = << >>
                /\ responses' = << >>
                /\ unresolved' = Undefined
                /\ pc' = "idle"

\* asyncMergeOptions that also fills the defaults
mergeAndResolveWithDefaults(opts, bag) ==
    LET merged == mergeOptions(opts, overriddenOptions, bag)
    IN  ResolveAfterMerge([options    |-> _setDefaultValues(merged.options),
                           overridden |-> merged.overridden], opts, bag)

\* asyncMergeOptions on the option set `opts`: super.mergeOptions, then the
\* browsers entry.
MergeAndResolve(opts, bag) ==
    ResolveAfterMerge(mergeOptions(opts, overriddenOptions, bag), opts, bag)

init(bag) ==
    /\ pc = "constructed"
    /\ Called("init", bag)
    /\ LET loaded == _load
       IN  IF loaded.error # NoError
           THEN /\ error' = loaded.error
                /\ pc' = "idle"
                /\ UNCHANGED <<options, overriddenOptions, requests, responses,
                               unresolved, settled, inputValues, pendingOverrides,
                               fresh>>
           ELSE MergeAndResolve(IF loaded.found
                                  THEN _normalizeOptionsAfterLoad(_fromObj(loaded.opts))
                                  ELSE options,
                                bag)
    /\ UNCHANGED <<configFile, fs, messages, prepared, merges>>

asyncMergeOptions(bag) ==
    /\ pc \in {"idle", "rejected"}
    /\ merges < MaxMerges
    /\ merges' = merges + 1
    /\ Called("asyncMergeOptions", bag)
    /\ MergeAndResolve(options, bag)
    /\ UNCHANGED <<configFile, fs, messages, prepared>>

\* A rejection that assigns what has been resolved so far
settlesAssigningPartial(i) ==
    /\ pc \in {"resolving", "rejected"}
    /\ i \in DOMAIN responses
    /\ responses[i] = Pending
    /\ LET result == getBrowserInfo(requests[i])
       IN  /\ responses' = [responses EXCEPT ![i] = result]
           /\ settled' = Append(settled, i)
           /\ IF result.state = "rejected" /\ pc = "resolving"
              THEN /\ pc' = "rejected"
                   /\ error' = result.error
                   /\ options' = [options EXCEPT !["browsers"].value =
                          Arr(flatten([k \in DOMAIN settled |-> responses[settled[k]].value]))]
              ELSE UNCHANGED <<pc, error, options>>
    /\ UNCHANGED <<configFile, fs, overriddenOptions, messages, requests,
                   lastOp, lastBag, before, unresolved, inputValues, pendingOverrides,
                   prepared, fresh, merges>>

\* One browserProviderPool.getBrowserInfo request completes. The first
\* rejection rejects Promise.all, and with it the call.
getBrowserInfoSettles(i) ==
    /\ pc \in {"resolving", "rejected"}
    /\ i \in DOMAIN responses
    /\ responses[i] = Pending
    /\ LET result == getBrowserInfo(requests[i])
       IN  /\ responses' = [responses EXCEPT ![i] = result]
           /\ settled' = Append(settled, i)
           /\ IF result.state = "rejected" /\ pc = "resolving"
              THEN pc' = "rejected" /\ error' = result.error
              ELSE UNCHANGED <<pc, error>>
    /\ UNCHANGED <<configFile, fs, options, overriddenOptions, messages, requests,
                   lastOp, lastBag, before, unresolved, inputValues, pendingOverrides,
                   prepared, fresh, merges>>

\* Promise.all is fulfilled: _getBrowserInfo returns and the browsers value
\* is assigned.
_getBrowserInfoReturns ==
    /\ pc = "resolving"
    /\ \A i \in DOMAIN responses : responses[i].state = "fulfilled"
    /\ options' = [options EXCEPT !["browsers"].value = ResolvedBrowsers(responses)]
    /\ pc' = "idle"
    /\ requests' = << >>
    /\ responses' = << >>
    /\ UNCHANGED <<configFile, fs, overriddenOptions, messages, error, lastOp, lastBag,
                   before, unresolved, settled, inputValues, pendingOverrides, prepared,
                   fresh, merges>>

prepare ==
    /\ pc \in {"idle", "rejected"}
    /\ options' = _prepareCompilerOptions(_setDefaultValues(_prepareFlags(options)))
    /\ prepared' = TRUE
    /\ fresh' = TRUE
    /\ UNCHANGED <<configFile, fs, overriddenOptions, messages, pc, requests, responses,
                   error, lastOp, lastBag, before, unresolved, settled, inputValues,
                   pendingOverrides, merges>>

\* notifyAboutOverriddenOptions without `this._overriddenOptions = []`
notifyKeepsRecord ==
    /\ pc \in {"idle", "rejected"}
    /\ IF Len(overriddenOptions) = 0
       THEN UNCHANGED <<messages, pendingOverrides>>
       ELSE /\ messages' = Append(messages,
                    renderTemplate("configOptionsWereOverridden",
                                   getConcatenatedValuesString(overriddenOptions),
                                   getPluralSuffix(overriddenOptions)))
            /\ pendingOverrides' = {}
    /\ UNCHANGED <<configFile, fs, options, overriddenOptions, pc, requests, responses,
                   error, lastOp, lastBag, before, unresolved, settled, inputValues,
                   prepared, fresh, merges>>

\* notifyAboutOverriddenOptions without the early return on an empty record
notifyWithoutEarlyReturn ==
    /\ pc \in {"idle", "rejected"}
    /\ messages' = Append(messages,
            renderTemplate("configOptionsWereOverridden",
                           getConcatenatedValuesString(overriddenOptions),
                           getPluralSuffix(overriddenOptions)))
    /\ overriddenOptions' = << >>
    /\ pendingOverrides' = {}
    /\ Len(messages) < 3
    /\ UNCHANGED <<configFile, fs, options, pc, requests, responses, error, lastOp,
                   lastBag, before, unresolved, settled, inputValues, prepared, fresh,
                   merges>>

notifyAboutOverriddenOptions ==
    /\ pc \in {"idle", "rejected"}
    /\ IF Len(overriddenOptions) = 0
       THEN UNCHANGED <<messages, overriddenOptions, pendingOverrides>>
       ELSE LET optionsStr    == getConcatenatedValuesString(overriddenOptions)
                optionsSuffix == getPluralSuffix(overriddenOptions)
            IN  /\ messages' = Append(messages,
                        renderTemplate("configOptionsWereOverridden", optionsStr, optionsSuffix))
                /\ overriddenOptions' = << >>
                /\ pendingOverrides' = {}
    /\ UNCHANGED <<configFile, fs, options, pc, requests, responses, error, lastOp,
                   lastBag, before, unresolved, settled, inputValues, prepared, fresh,
                   merges>>

Next ==
    \/ \E bag \in RuntimeBags : init(bag)
    \/ \E bag \in RuntimeBags : asyncMergeOptions(bag)
    \/ \E i \in DOMAIN responses : getBrowserInfoSettles(i)
    \/ _getBrowserInfoReturns
    \/ prepare
    \/ notifyAboutOverriddenOptions

Spec == Init /\ [][Next]_vars

-----------------------------------------------------------------------------
(* Properties. *)

Count(seq, x) == Cardinality({i \in DOMAIN seq : seq[i] = x})

Names(seq) == {seq[i] : i \in DOMAIN seq}

\* A step that begins an init or an asyncMergeOptions call.
MergeCallStep == lastOp' # lastOp \/ merges' # merges

\* C1: a name whose defined, Configuration-sourced value a runtime merge (of
\* init or of asyncMergeOptions) has set since the last report is in the
\* override record exactly once, however many further merges set it again;
\* no other name is in the record.
C1_OverriddenExactlyOnce ==
    \A name \in pendingOverrides \cup Names(overriddenOptions) :
        Count(overriddenOptions, name) = IF name \in pendingOverrides THEN 1 ELSE 0

\* C1 witness: speed, set by the file, was overridden by init and set again
\* by a later asyncMergeOptions before any report.
C1_Witness ==
    /\ lastOp = "asyncMergeOptions"
    /\ fs.exists /\ "speed" \in DOMAIN fs.content
    /\ "speed" \in DOMAIN lastBag
    /\ "speed" \in Names(before.overridden)
    /\ Count(overriddenOptions, "speed") = 1
    /\ messages = << >>

\* C3: the override record holds only names whose value the configuration
\* file itself had set.
C3_RecordsOnlyFileSetKeys ==
    \A i \in DOMAIN overriddenOptions :
        fs.exists /\ overriddenOptions[i] \in DOMAIN fs.content

\* C4: a warning is emitted only for a non-empty override record, it lists
\* exactly that record, and the record is empty afterwards; with an empty
\* record nothing but a new merge call emits a warning or changes the
\* record, and the record is cleared only by emitting its warning.
C4_DrainOnce ==
    [][ /\ (messages' # messages =>
                /\ overriddenOptions # << >>
                /\ messages' = Append(messages,
                       [template      |-> "configOptionsWereOverridden",
                        optionsStr    |-> overriddenOptions,
                        optionsSuffix |-> IF Len(overriddenOptions) = 1 THEN "" ELSE "s"])
                /\ overriddenOptions' = << >>)
        /\ (overriddenOptions = << >> /\ ~MergeCallStep =>
                messages' = messages /\ overriddenOptions' = << >>)
        /\ (overriddenOptions' # overriddenOptions /\ ~MergeCallStep =>
                messages' # messages)
      ]_vars

\* C4 witness: one warning naming two options was emitted and the record is
\* empty.
C4_Witness ==
    /\ Len(messages) = 1
    /\ messages[1].optionsSuffix = "s"
    /\ Len(messages[1].optionsStr) = 2
    /\ overriddenOptions = << >>

\* The default-fill list with the catalog default of each option.
DefaultCatalog ==
    [selectorTimeout  |-> DEFAULT_TIMEOUT_SELECTOR,
     assertionTimeout |-> DEFAULT_TIMEOUT_ASSERTION,
     pageLoadTimeout  |-> DEFAULT_TIMEOUT_PAGE_LOAD,
     speed            |-> DEFAULT_SPEED_VALUE,
     appInitDelay     |-> DEFAULT_APP_INIT_DELAY,
     concurrency      |-> DEFAULT_CONCURRENCY_VALUE,
     src              |-> DEFAULT_SOURCE_DIRECTORIES,
     developmentMode  |-> DEFAULT_DEVELOPMENT_MODE,
     retryTestPages   |-> DEFAULT_RETRY_TEST_PAGES,
     disableHttp2     |-> DEFAULT_DISABLE_HTTP2,
     proxyless        |-> DEFAULT_PROXYLESS]

\* The value a file entry has once loaded: an init-only flag as a boolean,
\* src as an array, anything else as written.
LoadedFileValue(name, value) ==
    IF name \in {"developmentMode", "retryTestPages", "disableHttp2", "proxyless"}
    THEN Bool(Truthy(value))
    ELSE IF name = "src" /\ value.t # "array" THEN Arr(<<value>>)
    ELSE value

FileSets(name) == fs.exists /\ name \in DOMAIN fs.content

\* C2: once prepare has run, every option of the default-fill list holds the
\* last value a runtime merge set, else the value the configuration file set
\* (as loaded), else its catalog default.
C2_HighestPrecedenceValue ==
    prepared =>
        \A name \in DOMAIN DefaultCatalog :
            /\ name \in DOMAIN options
            /\ options[name].value =
                   IF name \in DOMAIN inputValues THEN inputValues[name]
                   ELSE IF FileSets(name) THEN LoadedFileValue(name, fs.content[name])
                   ELSE DefaultCatalog[name]

\* C2 witness: after prepare, speed holds the runtime value over the file's,
\* src the file's value, concurrency its default.
C2_Witness ==
    /\ prepared
    /\ FileSets("speed") /\ FileSets("src")
    /\ "speed" \in DOMAIN inputValues /\ "src" \notin DOMAIN inputValues
    /\ options["speed"].value = Num(2)
    /\ options["src"].value = Arr(<<Str("tests/a")>>)
    /\ options["concurrency"].value = Num(1)

\* The descriptors one element of the browsers value stands for.
Expansion(browser) ==
    IF browser = Str("chrome")
    THEN <<BrowserInfo("chrome:1"), BrowserInfo("chrome:2")>>
    ELSE IF browser = Str("firefox") THEN <<BrowserInfo("firefox:1")>>
    ELSE <<browser>>

RECURSIVE ConcatExpansions(_)
ConcatExpansions(browsers) ==
    IF browsers = << >> THEN << >>
    ELSE Expansion(Head(browsers)) \o ConcatExpansions(Tail(browsers))

Specifiers(value) == IF value.t = "array" THEN value.a ELSE <<value>>

\* C5: when the browser resolution of a call has succeeded, the browsers
\* value is the concatenation, in the order of the input specifiers, of each
\* specifier's expansion, whatever the order in which the requests completed.
C5_InputOrder ==
    (pc = "idle" /\ error = NoError /\ unresolved # Undefined) =>
        options["browsers"].value = Arr(ConcatExpansions(Specifiers(unresolved)))

\* C5 witness: chrome and firefox were requested, firefox's request completed
\* first, and chrome's two descriptors precede firefox's one.
C5_Witness ==
    /\ pc = "idle"
    /\ unresolved = Arr(<<Str("chrome"), Str("firefox")>>)
    /\ settled = <<2, 1>>
    /\ options["browsers"].value =
           Arr(<<BrowserInfo("chrome:1"), BrowserInfo("chrome:2"), BrowserInfo("firefox:1")>>)

\* The request whose rejection rejected the call: the first rejected one in
\* completion order.
FirstRejected ==
    LET rejected == {k \in DOMAIN settled : responses[settled[k]].state = "rejected"}
    IN  settled[CHOOSE k \in rejected : \A j \in rejected : k <= j]

\* C6: while the browsers of a call are being resolved, and after one request
\* has been rejected, the browsers value is the unresolved value resolution
\* began with; the call then fails with the error of the first request that
\* was rejected.
C6_NoPartialList ==
    /\ pc \in {"resolving", "rejected"} => options["browsers"].value = unresolved
    /\ pc = "rejected" =>
           error = [type |-> "cannotFindBrowser", data |-> requests[FirstRejected]]

\* C6 witness: chrome was resolved, then edge was rejected; the browsers value
\* is still the pair of specifiers.
C6_Witness ==
    /\ pc = "rejected"
    /\ Len(settled) = 2
    /\ responses[settled[1]].state = "fulfilled"
    /\ options["browsers"].value = Arr(<<Str("chrome"), Str("edge")>>)

C8_MissingFile ==
    (lastOp = "init" /\ ~fs.exists) =>
        IF configFile # ""
        THEN /\ error = [type |-> "cannotFindTestcafeConfigurationFile",
                         data |-> Str(configFile)]
             /\ pc = "idle"
             /\ overriddenOptions = << >>
             /\ \A name \in DOMAIN options : options[name].source # SourceInput
             /\ ~prepared => options = EmptyObject
        ELSE /\ error.type # "cannotFindTestcafeConfigurationFile"
             /\ "browsers" \notin DOMAIN lastBag => error = NoError /\ pc = "idle"
             /\ \A name \in DOMAIN lastBag :
                    /\ name \in DOMAIN options
                    /\ options[name].source = SourceInput
                    /\ (name # "browsers" /\ ~prepared) =>
                           options[name].value = lastBag[name]
             /\ ~prepared => DOMAIN options = DOMAIN lastBag

\* C8 witness: init with a non-empty bag failed on the missing explicit file
\* and the option set is empty.
C8_Witness ==
    /\ lastOp = "init"
    /\ configFile = ExplicitPath
    /\ ~fs.exists
    /\ error.data = Str(ExplicitPath)
    /\ lastBag # EmptyObject
    /\ options = EmptyObject

\* A step of prepare that is not a stuttering step.
PrepareStep == fresh' /\ (~fresh \/ options' # options)

\* The typescript entry of the compiler options, undefined when there is none.
TypeScriptOptions(opts) ==
    LET compilerOptions == getOption(opts, "compilerOptions")
    IN  IF compilerOptions.t = "object" /\ "typescript" \in DOMAIN compilerOptions.o
        THEN compilerOptions.o["typescript"]
        ELSE Undefined

Fields(value) == IF value.t = "object" THEN DOMAIN value.o ELSE {}

\* C9: after prepare with a type-config path option set, configPath of the
\* typescript entry equals that path.
C9_ConfigPathAlwaysFromPath ==
    (fresh /\ Truthy(getOption(options, "tsConfigPath"))) =>
        LET typescript == TypeScriptOptions(options)
        IN  /\ "configPath" \in Fields(typescript)
            /\ typescript.o["configPath"] = getOption(options, "tsConfigPath")

\* C9, amended: prepare with a type-config path option set leaves a
\* typescript entry that already has a configPath field as it is; to any
\* other (absent, empty, carrying other fields) it adds configPath with that
\* path and keeps every other field.
C9_ConfigPathUnlessPresent ==
    [][ (PrepareStep /\ Truthy(getOption(options, "tsConfigPath"))) =>
            LET pre  == TypeScriptOptions(options)
                post == TypeScriptOptions(options')
            IN  IF "configPath" \in Fields(pre)
                THEN post = pre
                ELSE /\ Fields(post) = Fields(pre) \cup {"configPath"}
                     /\ post.o["configPath"] = getOption(options, "tsConfigPath")
                     /\ \A field \in Fields(pre) : post.o[field] = pre.o[field]
      ]_vars

\* C9 witness: { strict: true } with path "tsconfig.json" has become
\* { strict: true, configPath: "tsconfig.json" }.
C9_Witness ==
    /\ fresh
    /\ FileSets("compilerOptions")
    /\ fs.content["compilerOptions"] = Obj("typescript" :> Obj("strict" :> Bool(TRUE)))
    /\ getOption(options, "tsConfigPath") = Str("tsconfig.json")
    /\ TypeScriptOptions(options) =
           Obj([strict |-> Bool(TRUE), configPath |-> Str("tsconfig.json")])

\* What prepare makes of the screenshots value `pre`; `pathSet` tells whether
\* `pre` counts as having a path.
ScreenshotsFilled(pre, post, pathSet) ==
    /\ Fields(post) = Fields(pre) \cup {"path", "thumbnails"}
    /\ post.o["path"] = IF pathSet THEN pre.o["path"] ELSE Str("/cwd/screenshots")
    /\ post.o["thumbnails"] =
           IF "thumbnails" \in Fields(pre) /\ pre.o["thumbnails"] # Undefined
           THEN pre.o["thumbnails"]
           ELSE Bool(TRUE)
    /\ \A field \in Fields(pre) \ {"path", "thumbnails"} : post.o[field] = pre.o[field]

\* C10: prepare fills the screenshots option field by field: a path that is
\* set is kept, a missing one becomes the default directory; thumbnails that
\* are not undefined are kept, else become the default flag; a second
\* prepare changes nothing.
C10_PresetPathNeverOverwritten ==
    [][ /\ PrepareStep =>
               ScreenshotsFilled(getOption(options, "screenshots"),
                                 getOption(options', "screenshots"),
                                 "path" \in Fields(getOption(options, "screenshots")))
        /\ (fresh /\ fresh') =>
               getOption(options', "screenshots") = getOption(options, "screenshots")
      ]_vars

\* C10, amended: as C10, with a path counting as set only when it is not
\* empty: an empty-string path is replaced by the default directory like a
\* missing one.
C10_FieldByFieldFill ==
    [][ /\ PrepareStep =>
               ScreenshotsFilled(getOption(options, "screenshots"),
                                 getOption(options', "screenshots"),
                                 /\ "path" \in Fields(getOption(options, "screenshots"))
                                 /\ getOption(options, "screenshots").o["path"] # Str(""))
        /\ (fresh /\ fresh') =>
               getOption(options', "screenshots") = getOption(options, "screenshots")
      ]_vars

\* C10 witness: { thumbnails: false } from the file has become
\* { path: default directory, thumbnails: false }.
C10_Witness ==
    /\ fresh
    /\ FileSets("screenshots")
    /\ fs.content["screenshots"] = Obj("thumbnails" :> Bool(FALSE))
    /\ "screenshots" \notin DOMAIN inputValues
    /\ options["screenshots"].value =
           Obj([path |-> Str("/cwd/screenshots"), thumbnails |-> Bool(FALSE)])

====
